---- MODULE Spec2Model ----
(***************************************************************************)
(* Model of the AP placement optimizer (DORADO803/ap_oua).                 *)
(*                                                                         *)
(*   - calculateAPPlacement (src/services/optimizationService.ts), step by *)
(*     step: guards, the two nested loops, the rounding map.               *)
(*                                                                         *)
(*   - getAiPlacementSuggestions / handleAiOptimize (src/App.tsx): the     *)
(*     validation of a parsed AI response and the stored result.           *)
(*   - manual placement: the App state manualAPs with its handlers         *)
(*     (src/App.tsx) and InteractivePlanDisplay with its pointer handlers  *)
(*     (src/components/BuildingVisualizer.tsx, second half).  One action   *)
(*     is one event handler run to completion followed by the re-render,   *)
(*     so every handler reads the state left by the previous one           *)
(*     (SpecManual).  SpecRender is the same UI with the render of the     *)
(*     updates made in the window's mousemove listener left to a later     *)
(*     task, as a concurrent React root schedules it.                      *)
(*     Pointer input is the browser's event sequence: a press, a release,  *)
(*     the click dispatched after it, and the dblclick dispatched after    *)
(*     the second click at one position.                                   *)
(*   - the metric estimate of a manual AP in the PDF table (src/App.tsx).  *)
(*                                                                         *)
(* Numbers.  The three arguments of calculateAPPlacement are written as    *)
(* integers times a common unit 10^(-unitExp) metres: (radius, length,     *)
(* width, unitExp) = (1, 5, 3, -1) is calculateAPPlacement(10, 50, 30).    *)
(* All comparisons against sqrt(2)*radius are made on squares, so they     *)
(* are exact: ceil(d / (sqrt(2)*r)) is the least n with 2*n^2*r^2 >= d^2.  *)
(* Unrounded coordinates are fractions [num, den] of the unit; returned    *)
(* coordinates are integers counting hundredths of a metre (625 = 6.25).   *)
(***************************************************************************)
EXTENDS Integers, Sequences, FiniteSets, TLC

VARIABLES
    radius, buildingLength, buildingWidth, unitExp,  \* arguments of calculateAPPlacement
    pc,          \* position inside calculateAPPlacement
    r_idx, c_idx,\* loop counters
    resultado,   \* unrounded coordinates pushed so far
    visited,     \* number of executions of the inner loop body
    result,      \* the returned OptimizationResult (<<>> until returned)
    apiKeySet,       \* process.env.API_KEY is set
    isAiOptimizing,  \* App state: an AI request is in flight
    lastParsedData,  \* parsedData of the getAiPlacementSuggestions call that has
                     \* returned or thrown and whose caller has not resumed (<<>>: none)
    aiData,          \* last value returned by getAiPlacementSuggestions (<<>>: none)
    aiResults,       \* App state aiResults (<<>>: null)
    aiError,         \* App state aiError ("": null)
    uploadedPlanImageDataUrl,      \* App state: the file shown (0: null)
    uploadedPlanNaturalDimensions, \* App state (<<>>: null)
    manualAPs,                     \* App state: natural-pixel points
    renderedManualAPs,             \* manualAPs of the last render of App: the value
                                   \* the closure of handlePlanClick holds
    reading,                       \* files with a FileReader in flight
    decoding,                      \* files being decoded by the App's new Image()
    imgComplete,                   \* the <img> of the display has loaded its src
    displayedImageDimensions,      \* InteractivePlanDisplay state
    draggingApIndex,               \* InteractivePlanDisplay state (-1: null), from 0
    dragStartOffset,               \* InteractivePlanDisplay state (<<>>: null)
    pressed,                       \* the button is held after a press on a marker
    pointer,                       \* last pointer position while pressed (<<>>: none)
    pendingClick,                  \* click event the browser has still to dispatch
    pendingDblClick,               \* dblclick event the browser has still to dispatch
    gesture,                       \* the browser's click counting: the press/click
                                   \* sequence under way at one position (<<>>: none)
    listeners,                     \* the window mousemove/mouseup listeners are attached
    lastOp,                        \* name of the last handler that acted
    buildingLengthInput,           \* parseFloat of the App state buildingLength
    tableRows                      \* rows of the last manual PDF table (<<>>: none)

placeVars == <<radius, buildingLength, buildingWidth, unitExp, pc, r_idx, c_idx,
               resultado, visited, result>>

aiVars == <<apiKeySet, isAiOptimizing, lastParsedData, aiData, aiResults, aiError>>

uiVars == <<uploadedPlanImageDataUrl, uploadedPlanNaturalDimensions, manualAPs,
            renderedManualAPs, reading, decoding, imgComplete, displayedImageDimensions,
            draggingApIndex, dragStartOffset, pressed, pointer, pendingClick,
            pendingDblClick, gesture, listeners, lastOp>>

vars == <<radius, buildingLength, buildingWidth, unitExp, pc, r_idx, c_idx,
          resultado, visited, result,
          apiKeySet, isAiOptimizing, lastParsedData, aiData, aiResults, aiError,
          uploadedPlanImageDataUrl, uploadedPlanNaturalDimensions, manualAPs,
          renderedManualAPs, reading, decoding, imgComplete, displayedImageDimensions,
          draggingApIndex, dragStartOffset, pressed, pointer, pendingClick,
          pendingDblClick, gesture, listeners, lastOp,
          buildingLengthInput, tableRows>>

tableVars == <<buildingLengthInput, tableRows>>

----------------------------------------------------------------------------
(* Bounds *)

MaxDim == 6                     \* largest argument numerator
MaxDimResults == 3              \* the same, where the AI path runs alongside
UnitExps == {-1, 0, 3, 7}       \* units: 10 m, 1 m, 1 mm, 0.1 um

----------------------------------------------------------------------------
(* Arithmetic helpers *)

RECURSIVE Pow10(_)
Pow10(n) == IF n <= 0 THEN 1 ELSE 10 * Pow10(n - 1)

Max(a, b) == IF a >= b THEN a ELSE b
Min(a, b) == IF a <= b THEN a ELSE b

\* Math.ceil(a / b) for a >= 0, b > 0
CeilDiv(a, b) == (a + b - 1) \div b

\* Math.ceil(d / (Math.sqrt(2) * r)) for d >= 0, r > 0
CeilOverCell(d, r) ==
    CHOOSE n \in 0..d : /\ 2 * n * n * r * r >= d * d
                        /\ (n = 0 \/ 2 * (n - 1) * (n - 1) * r * r < d * d)

----------------------------------------------------------------------------
(* calculateAPPlacement *)

MsgNotPositive == "Todos los valores de entrada deben ser positivos."
MsgCellTooSmall == "El radio de cobertura produce un area de celda invalida o demasiado pequena."
MsgSmallBuilding == "Las dimensiones del edificio son mas pequenas que el tamano de celda del AP."
NoMessage == ""                 \* message: undefined

IsNonPositive_WidthZeroPasses(r, L, W) == r <= 0 \/ L <= 0 \/ W < 0
\* R_param <= 0 || Largo <= 0 || Ancho <= 0
IsNonPositive(r, L, W) == r <= 0 \/ L <= 0 \/ W <= 0

\* L_calc < 1e-6, L_calc = sqrt(2) * r * 10^-k:  2 * r^2 < 10^(2k - 12)
CellTooSmall(r, k) == 2 * k > 12 /\ 2 * r * r < Pow10(2 * k - 12)

nAP_target_Floor(r, L, W) == Max(1, (L * W) \div (2 * r * r))
\* Math.max(1, Math.ceil(Area_E / Area_C)), Area_C = 2 r^2
nAP_target(r, L, W) == Max(1, CeilDiv(L * W, 2 * r * r))

SmallBuilding_LengthOnly(r, L, W) == L * L < 2 * r * r
\* Largo < L_calc || Ancho < L_calc
SmallBuilding(r, L, W) == L * L < 2 * r * r \/ W * W < 2 * r * r

num_placement_cols_Floor(r, L) == Max(1, CeilOverCell(L, r) - 1)
\* Math.max(1, Math.ceil(Largo / L_calc))
num_placement_cols(r, L) == Max(1, CeilOverCell(L, r))

\* Math.max(1, Math.ceil(Ancho / L_calc))
num_placement_rows(r, W) == Max(1, CeilOverCell(W, r))

\* Largo / num_placement_cols, as a fraction of the unit
cell_placement_width(r, L) == [num |-> L, den |-> num_placement_cols(r, L)]
cell_placement_height(r, W) == [num |-> W, den |-> num_placement_rows(r, W)]

CellCentre_NoHalf(idx, cell) == [num |-> 2 * idx * cell.num, den |-> 2 * cell.den]
\* (idx + 0.5) * cell
CellCentre(idx, cell) == [num |-> (2 * idx + 1) * cell.num, den |-> 2 * cell.den]

TargetReached_OffByOne(n, target) == n > target
\* resultado.length >= nAP_target
TargetReached(n, target) == n >= target

Round2_Truncate(f, k) ==
    IF k <= 2 THEN (f.num * Pow10(2 - k)) \div f.den
    ELSE f.num \div (f.den * Pow10(k - 2))
\* parseFloat(v.toFixed(2)) of v = f.num / f.den * 10^-k, v >= 0, in hundredths
Round2(f, k) ==
    IF k <= 2 THEN (2 * f.num * Pow10(2 - k) + f.den) \div (2 * f.den)
    ELSE (2 * f.num + f.den * Pow10(k - 2)) \div (2 * f.den * Pow10(k - 2))

\* resultado.map(ap => ({x: round, y: round}))
finalCoordinates(res, k) ==
    [i \in 1..Len(res) |-> [x |-> Round2(res[i].x, k), y |-> Round2(res[i].y, k)]]

OptimizationResult(coords, msg) ==
    [nAP |-> Len(coords), coordinates |-> coords, message |-> msg]

InitPlacement ==
    /\ radius \in -1..MaxDim
    /\ buildingLength \in -1..MaxDim
    /\ buildingWidth \in -1..MaxDim
    /\ unitExp \in UnitExps
    /\ pc = "start"
    /\ r_idx = 0
    /\ c_idx = 0
    /\ resultado = <<>>
    /\ visited = 0
    /\ result = <<>>

\* lines 13-45: the guards, then the loop initialisation
Enter ==
    /\ pc = "start"
    /\ UNCHANGED <<radius, buildingLength, buildingWidth, unitExp, resultado, visited>>
    /\ IF IsNonPositive(radius, buildingLength, buildingWidth)
       THEN /\ result' = <<[nAP |-> 0, coordinates |-> <<>>, message |-> MsgNotPositive]>>
            /\ pc' = "done"
            /\ UNCHANGED <<r_idx, c_idx>>
       ELSE IF CellTooSmall(radius, unitExp)
       THEN /\ result' = <<[nAP |-> 0, coordinates |-> <<>>, message |-> MsgCellTooSmall]>>
            /\ pc' = "done"
            /\ UNCHANGED <<r_idx, c_idx>>
       ELSE /\ r_idx' = 0
            /\ pc' = "outer"
            /\ UNCHANGED <<c_idx, result>>

\* line 47: r_idx < num_placement_rows
OuterTest ==
    /\ pc = "outer"
    /\ UNCHANGED <<radius, buildingLength, buildingWidth, unitExp, resultado, visited,
                   r_idx, result>>
    /\ IF r_idx < num_placement_rows(radius, buildingWidth)
       THEN c_idx' = 0 /\ pc' = "inner"
       ELSE UNCHANGED c_idx /\ pc' = "map"

\* lines 48-57: one test of the inner loop and, when it passes, one body
InnerStep ==
    /\ pc = "inner"
    /\ UNCHANGED <<radius, buildingLength, buildingWidth, unitExp, r_idx, result>>
    /\ IF c_idx < num_placement_cols(radius, buildingLength)
       THEN /\ visited' = visited + 1
            /\ IF TargetReached(Len(resultado),
                                nAP_target(radius, buildingLength, buildingWidth))
               THEN /\ pc' = "rowend"
                    /\ UNCHANGED <<resultado, c_idx>>
               ELSE /\ resultado' = Append(resultado,
                          [x |-> CellCentre(c_idx, cell_placement_width(radius, buildingLength)),
                           y |-> CellCentre(r_idx, cell_placement_height(radius, buildingWidth))])
                    /\ c_idx' = c_idx + 1
                    /\ pc' = "inner"
       ELSE /\ pc' = "rowend"
            /\ UNCHANGED <<resultado, c_idx, visited>>

\* lines 58-60 and the r_idx++ of line 47
RowEnd ==
    /\ pc = "rowend"
    /\ UNCHANGED <<radius, buildingLength, buildingWidth, unitExp, resultado, visited,
                   c_idx, result>>
    /\ IF TargetReached(Len(resultado), nAP_target(radius, buildingLength, buildingWidth))
       THEN UNCHANGED r_idx /\ pc' = "map"
       ELSE r_idx' = r_idx + 1 /\ pc' = "outer"

\* lines 64-70
Finish ==
    /\ pc = "map"
    /\ UNCHANGED <<radius, buildingLength, buildingWidth, unitExp, resultado, visited,
                   r_idx, c_idx>>
    /\ result' = <<OptimizationResult(
                     finalCoordinates(resultado, unitExp),
                     IF SmallBuilding(radius, buildingLength, buildingWidth)
                     THEN MsgSmallBuilding ELSE NoMessage)>>
    /\ pc' = "done"

NextPlacement == Enter \/ OuterTest \/ InnerStep \/ RowEnd \/ Finish

----------------------------------------------------------------------------
(* AI suggestions: getAiPlacementSuggestions and handleAiOptimize (src/App.tsx) *)
(* A suggested value is an integer counting thousandths of a metre; an     *)
(* item whose x or y is not a JSON number has numeric = FALSE.              *)

MaxAiPoints == 2                \* longest suggestion array

AiPoints == { [x |-> 0, y |-> 0, numeric |-> TRUE],
              [x |-> -4, y |-> 0, numeric |-> TRUE],
              [x |-> -6, y |-> 0, numeric |-> TRUE],
              [x |-> 1004, y |-> 1004, numeric |-> TRUE],
              [x |-> 1006, y |-> 504, numeric |-> TRUE],
              [x |-> 0, y |-> 0, numeric |-> FALSE] }

AiResponses == UNION { [1..n -> AiPoints] : n \in 0..MaxAiPoints }

MsgAiNoneValid == "La IA devolvio coordenadas, pero ninguna era valida o estaba dentro de los limites del edificio despues del formateo."
MsgAiNoCoordinates == "La IA no devolvio coordenadas validas."
MsgAiNoSuggestion == "La IA no sugirio ninguna ubicacion de AP."
MsgAiBadInput == "Por favor, ingrese valores numericos validos y positivos para dimensiones y area de cobertura."
MsgAiNoKey == "La clave API de Google GenAI no esta configurada. La optimizacion con IA no esta disponible."
MsgAiBadFormat == "La respuesta de la IA no tiene el formato esperado (array de objetos {x, y})."

\* typeof item.x === 'number' && typeof item.y === 'number'
IsNumberPoint(p) == p.numeric

\* parseFloat(t.toFixed(2)) of t thousandths, in hundredths: toFixed rounds the
\* magnitude and keeps the sign; "-0.00" parses to -0, which is 0 here
RoundThousandths(t) ==
    IF t >= 0 THEN (t + 5) \div 10 ELSE 0 - ((5 - t) \div 10)

\* h hundredths of a metre <= n * 10^-k metres
LeqMetres(h, n, k) ==
    IF k <= 2 THEN h <= n * Pow10(2 - k) ELSE h * Pow10(k - 2) <= n

InsideBuilding_NoUpperBound(ap, L, W, k) == ap.x >= 0 /\ ap.y >= 0
\* the filter of lines 185-189 on a rounded point
InsideBuilding(ap, L, W, k) ==
    /\ ap.x >= 0 /\ LeqMetres(ap.x, L, k)
    /\ ap.y >= 0 /\ LeqMetres(ap.y, W, k)

RECURSIVE FilterSeq(_, _, _, _)
FilterSeq(s, L, W, k) ==
    IF s = <<>> THEN <<>>
    ELSE IF InsideBuilding(Head(s), L, W, k)
         THEN <<Head(s)>> \o FilterSeq(Tail(s), L, W, k)
         ELSE FilterSeq(Tail(s), L, W, k)

\* lines 180-189: map to 2 decimals, then filter
validatedCoordinates(parsedData, L, W, k) ==
    FilterSeq([i \in 1..Len(parsedData) |->
                  [x |-> RoundThousandths(parsedData[i].x),
                   y |-> RoundThousandths(parsedData[i].y)]], L, W, k)

AiCount_Unvalidated(validated, parsedData) == Len(parsedData)
\* nAP: validatedCoordinates.length
AiCount(validated, parsedData) == Len(validated)

\* lines 191-194: the value returned for a well-formed response
AiSuggestionResult(parsedData, L, W, k) ==
    LET validated == validatedCoordinates(parsedData, L, W, k) IN
    IF Len(validated) = 0 /\ Len(parsedData) > 0
    THEN [nAP |-> 0, coordinates |-> <<>>, message |-> MsgAiNoneValid]
    ELSE [nAP |-> AiCount(validated, parsedData), coordinates |-> validated,
          message |-> IF Len(validated) > 0 THEN NoMessage ELSE MsgAiNoCoordinates]

InitAi ==
    /\ apiKeySet \in BOOLEAN
    /\ isAiOptimizing = FALSE
    /\ lastParsedData = <<>>
    /\ aiData = <<>>
    /\ aiResults = <<>>
    /\ aiError = ""

\* handleAiOptimize up to the await (lines 206-228); the button is disabled
\* while isAiOptimizing (line 563)
HandleAiOptimize ==
    /\ ~isAiOptimizing
    /\ \E area \in {0, 200} :
         IF buildingLength <= 0 \/ buildingWidth <= 0 \/ area <= 0
         THEN /\ aiError' = MsgAiBadInput
              /\ isAiOptimizing' = FALSE
         ELSE IF ~apiKeySet
         THEN /\ aiError' = MsgAiNoKey
              /\ isAiOptimizing' = FALSE
         ELSE /\ aiError' = ""
              /\ isAiOptimizing' = TRUE
    /\ aiResults' = <<>>
    /\ UNCHANGED <<apiKeySet, lastParsedData, aiData>>
    /\ UNCHANGED placeVars

\* line 179: the parsed response is not an array of {x: number, y: number}
RejectsFormat(parsedData) ==
    \E i \in 1..Len(parsedData) : ~IsNumberPoint(parsedData[i])

\* the response arrives: getAiPlacementSuggestions from the await of line 165
\* to its return or throw (lines 165-203)
AiResponseArrives ==
    /\ isAiOptimizing
    /\ lastParsedData = <<>>
    /\ \E parsedData \in AiResponses :
         /\ lastParsedData' = <<parsedData>>
         /\ IF RejectsFormat(parsedData)
            THEN UNCHANGED aiData
            ELSE aiData' = <<AiSuggestionResult(parsedData, buildingLength,
                                                buildingWidth, unitExp)>>
    /\ UNCHANGED <<apiKeySet, isAiOptimizing, aiResults, aiError>>
    /\ UNCHANGED placeVars

\* handleAiOptimize after the await (lines 228-239): the returned value is
\* stored, or the message of the error thrown
HandleAiOptimizeResumes ==
    /\ isAiOptimizing
    /\ lastParsedData # <<>>
    /\ IF RejectsFormat(lastParsedData[1])
       THEN /\ aiError' = MsgAiBadFormat
            /\ UNCHANGED aiResults
       ELSE /\ aiResults' = IF Len(aiData[1].coordinates) = 0 /\ aiData[1].message = ""
                            THEN <<[aiData[1] EXCEPT !.message = MsgAiNoSuggestion]>>
                            ELSE aiData
            /\ UNCHANGED aiError
    /\ isAiOptimizing' = FALSE
    /\ lastParsedData' = <<>>
    /\ UNCHANGED <<apiKeySet, aiData>>
    /\ UNCHANGED placeVars

NextAi == HandleAiOptimize \/ AiResponseArrives \/ HandleAiOptimizeResumes

----------------------------------------------------------------------------
(* Manual placement: App (src/App.tsx) and InteractivePlanDisplay          *)
(* (src/components/BuildingVisualizer.tsx, lines 129-392).                 *)
(* Points of manualAPs are natural pixels; pointer events carry client     *)
(* coordinates.  The plan files and the layout are chosen so that every    *)
(* display/natural quotient below is an integer, as it is in the code's    *)
(* double arithmetic for these sizes (powers of two).                      *)

MaxAPs == 2                     \* most points kept in manualAPs
MaxInFlight == 1                \* most plan files being read or decoded at once

Files == {1, 2}                 \* the plan images the user can select

\* naturalWidth / naturalHeight of the decoded file
NaturalSize(f) ==
    IF f = 1 THEN [width |-> 256, height |-> 256] ELSE [width |-> 512, height |-> 256]

\* imageRef.current.getBoundingClientRect(): the <img> is "w-full h-auto"
\* inside a container 256 px wide
ImageDisplayRect(f) ==
    [left |-> 8, top |-> 16, width |-> 256,
     height |-> (256 * NaturalSize(f).height) \div NaturalSize(f).width]

\* client positions of the pointer events
Pointers == { [x |-> 108, y |-> 116], [x |-> 111, y |-> 120],
              [x |-> 158, y |-> 116], [x |-> -2, y |-> 300] }

\* client positions of the clicks dispatched by script
ScriptedClicks == { [x |-> 0, y |-> 0], [x |-> 158, y |-> 116] }

NoIndex == 0 - 1                \* draggingApIndex: null

NotANumber == [numeric |-> FALSE, value |-> 0]   \* parseFloat('') is NaN

\* imageRef.current && complete && naturalWidth !== 0
ImageReady == uploadedPlanImageDataUrl # 0 /\ imgComplete

MinDistanceSq_Inclusive(a, b) ==
    (a.x - b.x) * (a.x - b.x) + (a.y - b.y) * (a.y - b.y) <= 5 * 5
\* distanceSquared < MIN_DISTANCE_THRESHOLD * MIN_DISTANCE_THRESHOLD
TooClose(a, b) ==
    (a.x - b.x) * (a.x - b.x) + (a.y - b.y) * (a.y - b.y) < 5 * 5

isTooCloseToExisting_StaleEmptySet(aps, coords) ==
    \E i \in 1..Len(<<>>) : TooClose(aps[i], coords)
\* manualAPs.some(existingAP => ...)
isTooCloseToExisting(aps, coords) ==
    \E i \in 1..Len(aps) : TooClose(aps[i], coords)

\* (onDisplayed / displayed width) * naturalWidth, same for y
DisplayToNatural(d, shown, natural) ==
    [x |-> (d.x * natural.width) \div shown.width,
     y |-> (d.y * natural.height) \div shown.height]

\* ap.x * displayScaleX, ap.y * displayScaleY
NaturalToDisplay(ap, shown, natural) ==
    [x |-> (ap.x * shown.width) \div natural.width,
     y |-> (ap.y * shown.height) \div natural.height]

ClampToImage_Unclamped(q, natural) == q
\* Math.max(0, Math.min(v, natural))
ClampToImage(q, natural) ==
    [x |-> Max(0, Min(q.x, natural.width)), y |-> Max(0, Min(q.y, natural.height))]

DraggedPosition_AtPointer(ev, rect, offset, shown, natural) ==
    ClampToImage(DisplayToNatural([x |-> ev.x - rect.left, y |-> ev.y - rect.top],
                                  shown, natural), natural)
\* lines 249-260: the natural position of the dragged AP for a pointer event
DraggedPosition(ev, rect, offset, shown, natural) ==
    ClampToImage(DisplayToNatural([x |-> ev.x - rect.left - offset.x,
                                   y |-> ev.y - rect.top - offset.y],
                                  shown, natural), natural)

\* the overlay with the markers is rendered (line 333)
MarkersShown ==
    /\ ImageReady
    /\ displayedImageDimensions.width > 0 /\ displayedImageDimensions.height > 0

\* the pointer is on the marker circle of ap: r = 6 plus half of the 1.5 stroke,
\* (6.75)^2 = 45.5625 (lines 288, 374-380)
OnMarker(ev, ap) ==
    LET c == NaturalToDisplay(ap, displayedImageDimensions,
                              NaturalSize(uploadedPlanImageDataUrl))
        rect == ImageDisplayRect(uploadedPlanImageDataUrl)
        dx == ev.x - rect.left - c.x
        dy == ev.y - rect.top - c.y
    IN dx * dx + dy * dy <= 45

\* the marker that receives a pointer event: the last one painted (line 341)
MarkerAt(ev) ==
    IF MarkersShown /\ \E i \in 1..Len(manualAPs) : OnMarker(ev, manualAPs[i])
    THEN (CHOOSE i \in 1..Len(manualAPs) :
              /\ OnMarker(ev, manualAPs[i])
              /\ \A j \in (i + 1)..Len(manualAPs) : ~OnMarker(ev, manualAPs[j])) - 1
    ELSE NoIndex

\* the event position lies on the container
OnContainer(ev) ==
    /\ uploadedPlanImageDataUrl # 0
    /\ LET rect == ImageDisplayRect(uploadedPlanImageDataUrl) IN
       /\ ev.x >= rect.left /\ ev.x <= rect.left + rect.width
       /\ ev.y >= rect.top /\ ev.y <= rect.top + rect.height

ClearedAPs_Kept(aps) == aps
\* setManualAPs([]) (App, lines 59, 249, 266, 287)
ClearedAPs(aps) == <<>>

DragInProgress_Never(index) == FALSE
\* line 194: draggingApIndex !== null
DragInProgress(index) == index # NoIndex

InsideDisplayedImage_NoLowerBound(on, rect) ==
    on.x <= rect.width /\ on.y <= rect.height
\* lines 204-205: the position lies on the displayed image
InsideDisplayedImage(on, rect) ==
    /\ on.x >= 0 /\ on.x <= rect.width
    /\ on.y >= 0 /\ on.y <= rect.height

\* prevAPs.filter((_, i) => i !== index)
RemoveAt(aps, index) ==
    [i \in 1..(Len(aps) - (IF index >= 0 /\ index < Len(aps) THEN 1 ELSE 0)) |->
        IF i <= index \/ index < 0 THEN aps[i] ELSE aps[i + 1]]

ReplaceAt_AssignAtIndex(aps, index, newCoords) ==
    [i \in 1..(IF index + 1 > Len(aps) THEN index + 1 ELSE Len(aps)) |->
        IF i - 1 = index \/ i > Len(aps) THEN newCoords ELSE aps[i]]
\* prevAPs.map((ap, i) => (i === index ? newCoords : ap))
ReplaceAt(aps, index, newCoords) ==
    [i \in 1..Len(aps) |-> IF i - 1 = index THEN newCoords ELSE aps[i]]

apCenter_display_Unscaled(ap, shown, natural) == [x |-> ap.x, y |-> ap.y]
\* lines 223-227: the display position of the AP's centre at the press
apCenter_display(ap, shown, natural) ==
    [x |-> (ap.x * shown.width) \div natural.width,
     y |-> (ap.y * shown.height) \div natural.height]

StartOffset_Zero(ev, rect, c) == [x |-> 0, y |-> 0]
\* lines 230-233: pointer position on the image minus the AP's display centre
StartOffset(ev, rect, c) ==
    [x |-> ev.x - rect.left - c.x, y |-> ev.y - rect.top - c.y]

ReleasedIndex_Kept(index) == index
\* setDraggingApIndex(null) (line 267)
ReleasedIndex(index) == NoIndex

ListenersEffect_NeverReleased(index) == TRUE
\* the effect of lines 272-281 after a render with this draggingApIndex: the
\* cleanup of the previous run removes the listeners, the new run adds them
\* when the index is not null
ListenersEffect(index) == index # NoIndex

\* state of a freshly mounted InteractivePlanDisplay (lines 156-158); the
\* cleanup of an unmounted one has removed its listeners (lines 276-279)
DisplayMounted ==
    /\ displayedImageDimensions' = [width |-> 0, height |-> 0]
    /\ draggingApIndex' = NoIndex
    /\ dragStartOffset' = <<>>
    /\ imgComplete' = FALSE
    /\ listeners' = FALSE

InitUi ==
    /\ uploadedPlanImageDataUrl = 0
    /\ uploadedPlanNaturalDimensions = <<>>
    /\ manualAPs = <<>>
    /\ renderedManualAPs = <<>>
    /\ reading = {}
    /\ decoding = {}
    /\ imgComplete = FALSE
    /\ displayedImageDimensions = [width |-> 0, height |-> 0]
    /\ draggingApIndex = NoIndex
    /\ dragStartOffset = <<>>
    /\ pressed = FALSE
    /\ pointer = <<>>
    /\ pendingClick = <<>>
    /\ pendingDblClick = <<>>
    /\ gesture = <<>>
    /\ listeners = FALSE
    /\ lastOp = "none"

\* the browser has no event left to dispatch
NoPendingEvent == pendingClick = <<>> /\ pendingDblClick = <<>>

\* no pointer interaction is under way
PointerFree == ~pressed /\ NoPendingEvent

\* the click sequence after a press at ev: a press that follows a click at the
\* same position continues the sequence when it comes within the double-click
\* interval, any other press starts one.  index and aps record the marker
\* under the first press and manualAPs at that moment
PressGesture(ev) ==
    LET fresh == <<[x |-> ev.x, y |-> ev.y, clicks |-> 0,
                    index |-> MarkerAt(ev), aps |-> manualAPs]>>
    IN IF gesture # <<>> /\ gesture[1].x = ev.x /\ gesture[1].y = ev.y
                         /\ gesture[1].clicks = 1
       THEN {gesture, fresh}
       ELSE {fresh}

\* handlePlanImageUpload with a file (lines 243-262, up to readAsDataURL)
HandlePlanImageUpload ==
    /\ PointerFree
    /\ Cardinality(reading) + Cardinality(decoding) < MaxInFlight
    /\ \E f \in Files : reading' = reading \cup {f}
    /\ gesture' = <<>>
    /\ lastOp' = "upload"
    /\ UNCHANGED <<uploadedPlanImageDataUrl, uploadedPlanNaturalDimensions, manualAPs,
                   decoding, imgComplete, displayedImageDimensions, draggingApIndex,
                   dragStartOffset, pressed, pointer, pendingClick, pendingDblClick,
                   listeners>>

\* handlePlanImageUpload without a file (lines 263-268): the selection was
\* emptied; the display is unmounted (line 674)
HandlePlanImageUploadNoFile ==
    /\ PointerFree
    /\ uploadedPlanImageDataUrl # 0 \/ reading # {}
    /\ uploadedPlanImageDataUrl' = 0
    /\ manualAPs' = ClearedAPs(manualAPs)
    /\ uploadedPlanNaturalDimensions' = <<>>
    /\ DisplayMounted
    /\ gesture' = <<>>
    /\ lastOp' = "uploadNone"
    /\ UNCHANGED <<reading, decoding, pressed, pointer, pendingClick, pendingDblClick>>

\* reader.onloadend (lines 247-261); the <img> starts to load the new src
ReaderOnLoadEnd ==
    /\ NoPendingEvent
    /\ \E f \in reading :
        /\ reading' = reading \ {f}
        /\ uploadedPlanImageDataUrl' = f
        /\ decoding' = decoding \cup {f}
        /\ IF uploadedPlanImageDataUrl = 0
           THEN DisplayMounted
           ELSE /\ imgComplete' = (imgComplete /\ uploadedPlanImageDataUrl = f)
                /\ UNCHANGED <<displayedImageDimensions, draggingApIndex, dragStartOffset,
                               listeners>>
    /\ manualAPs' = ClearedAPs(manualAPs)
    /\ gesture' = IF gesture = <<>> THEN <<>>
                  ELSE <<[gesture[1] EXCEPT !.index = NoIndex]>>
    /\ lastOp' = "loadend"
    /\ UNCHANGED <<uploadedPlanNaturalDimensions, pressed, pointer, pendingClick,
                   pendingDblClick>>

\* img.onload of the App's new Image() (lines 253-255)
AppImageOnLoad ==
    /\ NoPendingEvent
    /\ \E f \in decoding :
        /\ decoding' = decoding \ {f}
        /\ uploadedPlanNaturalDimensions' = <<NaturalSize(f)>>
    /\ lastOp' = "decoded"
    /\ UNCHANGED <<uploadedPlanImageDataUrl, manualAPs, reading, imgComplete,
                   displayedImageDimensions, draggingApIndex, dragStartOffset,
                   pressed, pointer, pendingClick, pendingDblClick, gesture, listeners>>

\* the <img> of the display finishes loading: updateDimensions (lines 163-175)
DisplayImageOnLoad ==
    /\ NoPendingEvent
    /\ uploadedPlanImageDataUrl # 0
    /\ ~imgComplete
    /\ imgComplete' = TRUE
    /\ displayedImageDimensions' =
          [width |-> ImageDisplayRect(uploadedPlanImageDataUrl).width,
           height |-> ImageDisplayRect(uploadedPlanImageDataUrl).height]
    /\ lastOp' = "shown"
    /\ UNCHANGED <<uploadedPlanImageDataUrl, uploadedPlanNaturalDimensions, manualAPs,
                   reading, decoding, draggingApIndex, dragStartOffset,
                   pressed, pointer, pendingClick, pendingDblClick, gesture, listeners>>

\* clearPlan (lines 56-62); the display is unmounted (line 674)
ClearPlan ==
    /\ PointerFree
    /\ uploadedPlanImageDataUrl # 0
    /\ uploadedPlanImageDataUrl' = 0
    /\ manualAPs' = ClearedAPs(manualAPs)
    /\ uploadedPlanNaturalDimensions' = <<>>
    /\ DisplayMounted
    /\ gesture' = <<>>
    /\ lastOp' = "clearPlan"
    /\ UNCHANGED <<reading, decoding, pressed, pointer, pendingClick, pendingDblClick>>

\* handleClearAll (lines 64-74): the form, the AI state and, through clearPlan,
\* the plan
HandleClearAll ==
    /\ PointerFree
    /\ buildingLengthInput' = NotANumber
    /\ UNCHANGED tableRows
    /\ aiResults' = <<>>
    /\ aiError' = ""
    /\ UNCHANGED <<apiKeySet, isAiOptimizing, lastParsedData, aiData>>
    /\ uploadedPlanImageDataUrl' = 0
    /\ manualAPs' = ClearedAPs(manualAPs)
    /\ uploadedPlanNaturalDimensions' = <<>>
    /\ DisplayMounted
    /\ gesture' = <<>>
    /\ lastOp' = "clearAll"
    /\ UNCHANGED <<reading, decoding, pressed, pointer, pendingClick, pendingDblClick>>

\* clearManualAPs (line 287), offered while there are marks (line 689)
ClearManualAPs ==
    /\ PointerFree
    /\ uploadedPlanImageDataUrl # 0
    /\ Len(manualAPs) > 0
    /\ manualAPs' = ClearedAPs(manualAPs)
    /\ gesture' = <<>>
    /\ lastOp' = "clearMarks"
    /\ UNCHANGED <<uploadedPlanImageDataUrl, uploadedPlanNaturalDimensions, reading,
                   decoding, imgComplete, displayedImageDimensions, draggingApIndex,
                   dragStartOffset, pressed, pointer, pendingClick, pendingDblClick,
                   listeners>>

\* mousedown on a marker: handleApMouseDown (lines 217-234), then the effect
\* of lines 272-281
ApMouseDown ==
    /\ PointerFree
    /\ \E ev \in Pointers :
        LET index == MarkerAt(ev)
            rect == ImageDisplayRect(uploadedPlanImageDataUrl)
            c == apCenter_display(manualAPs[index + 1], displayedImageDimensions,
                                  NaturalSize(uploadedPlanImageDataUrl))
        IN /\ index # NoIndex
           /\ pressed' = TRUE
           /\ pointer' = <<ev>>
           /\ gesture' \in PressGesture(ev)
           /\ IF ~ImageReady
              THEN UNCHANGED <<draggingApIndex, dragStartOffset>>
              ELSE /\ draggingApIndex' = index
                   /\ dragStartOffset' = <<StartOffset(ev, rect, c)>>
    /\ listeners' = ListenersEffect(draggingApIndex')
    /\ lastOp' = "down"
    /\ UNCHANGED <<uploadedPlanImageDataUrl, uploadedPlanNaturalDimensions, manualAPs,
                   reading, decoding, imgComplete, displayedImageDimensions, pendingClick,
                   pendingDblClick>>

\* mousemove on the window of a mounted display.  While the listeners are
\* attached (lines 272-281) it runs handleGlobalMouseMove (lines 241-263) and,
\* past its guard, handleMoveManualAp (App, 293-295); otherwise no handler runs
GlobalMouseMove ==
    /\ uploadedPlanImageDataUrl # 0
    /\ NoPendingEvent
    /\ \E ev \in Pointers :
        /\ pointer' = IF pressed THEN <<ev>> ELSE pointer
        /\ IF ~listeners \/ draggingApIndex = NoIndex \/ dragStartOffset = <<>>
                         \/ ~ImageReady
           THEN UNCHANGED manualAPs /\ lastOp' = "moveIgnored"
           ELSE /\ manualAPs' = ReplaceAt(manualAPs, draggingApIndex,
                                   DraggedPosition(ev,
                                       ImageDisplayRect(uploadedPlanImageDataUrl),
                                       dragStartOffset[1], displayedImageDimensions,
                                       NaturalSize(uploadedPlanImageDataUrl)))
                /\ lastOp' = "move"
    /\ gesture' = <<>>
    /\ UNCHANGED <<uploadedPlanImageDataUrl, uploadedPlanNaturalDimensions, reading,
                   decoding, imgComplete, displayedImageDimensions, draggingApIndex,
                   dragStartOffset, pressed, pendingClick, pendingDblClick, listeners>>

\* the button is released: handleGlobalMouseUp (lines 265-270) when the listeners
\* are attached, then the effect of lines 272-281; the browser then dispatches a
\* click on the common ancestor of the press and the release, which is inside
\* the container when the release is
GlobalMouseUp ==
    /\ pressed
    /\ NoPendingEvent
    /\ pressed' = FALSE
    /\ pointer' = <<>>
    /\ IF listeners /\ draggingApIndex # NoIndex
       THEN /\ draggingApIndex' = ReleasedIndex(draggingApIndex)
            /\ dragStartOffset' = <<>>
       ELSE UNCHANGED <<draggingApIndex, dragStartOffset>>
    /\ listeners' = ListenersEffect(draggingApIndex')
    /\ pendingClick' = IF OnContainer(pointer[1])
                       THEN <<[x |-> pointer[1].x, y |-> pointer[1].y, from |-> "marker"]>>
                       ELSE <<>>
    /\ lastOp' = "up"
    /\ UNCHANGED <<uploadedPlanImageDataUrl, uploadedPlanNaturalDimensions, manualAPs,
                   reading, decoding, imgComplete, displayedImageDimensions,
                   pendingDblClick, gesture>>

\* press and release on the container outside every marker: no handler runs,
\* the browser has a click to dispatch
SurfacePress ==
    /\ PointerFree
    /\ \E ev \in Pointers :
        /\ OnContainer(ev)
        /\ MarkerAt(ev) = NoIndex
        /\ pendingClick' = <<[x |-> ev.x, y |-> ev.y, from |-> "surface"]>>
        /\ gesture' \in PressGesture(ev)
    /\ UNCHANGED <<uploadedPlanImageDataUrl, uploadedPlanNaturalDimensions, manualAPs,
                   reading, decoding, imgComplete, displayedImageDimensions,
                   draggingApIndex, dragStartOffset, pressed, pointer, pendingDblClick,
                   listeners, lastOp>>

\* a click dispatched on the container without a pointer (line 319): click()
\* on the element or activation by assistive technology, clientX = clientY = 0,
\* or dispatchEvent with a MouseEvent that carries a position.  It needs no
\* press and no release, so it can come while the button is held on a marker
SyntheticClick ==
    /\ NoPendingEvent
    /\ uploadedPlanImageDataUrl # 0
    /\ \E ev \in ScriptedClicks :
          pendingClick' = <<[x |-> ev.x, y |-> ev.y, from |-> "script"]>>
    /\ gesture' = <<>>
    /\ UNCHANGED <<uploadedPlanImageDataUrl, uploadedPlanNaturalDimensions, manualAPs,
                   reading, decoding, imgComplete, displayedImageDimensions,
                   draggingApIndex, dragStartOffset, pressed, pointer, pendingDblClick,
                   listeners, lastOp>>

\* the click reaches the container: handleContainerClick (lines 193-215) and,
\* through onImageClick, handlePlanClick (App, lines 271-285), which tests the
\* manualAPs of its closure and appends through an updater, to the latest
\* manualAPs; the render that follows applies the append.  The second click of
\* a sequence is followed by a dblclick
ContainerClick ==
    /\ pendingClick # <<>>
    /\ pendingClick' = <<>>
    /\ LET ev == pendingClick[1]
           rect == ImageDisplayRect(uploadedPlanImageDataUrl)
           on == [x |-> ev.x - rect.left, y |-> ev.y - rect.top]
           coords == DisplayToNatural(on, rect, NaturalSize(uploadedPlanImageDataUrl))
       IN IF \/ DragInProgress(draggingApIndex)
             \/ ~ImageReady
             \/ ~InsideDisplayedImage(on, rect)
          THEN UNCHANGED <<manualAPs, renderedManualAPs>> /\ lastOp' = "clickIgnored"
          ELSE IF isTooCloseToExisting(renderedManualAPs, coords)
          THEN UNCHANGED <<manualAPs, renderedManualAPs>> /\ lastOp' = "tooClose"
          ELSE /\ Len(manualAPs) < MaxAPs
               /\ manualAPs' = Append(manualAPs, coords)
               /\ renderedManualAPs' = Append(renderedManualAPs, coords)
               /\ lastOp' = "add"
    /\ IF gesture = <<>>
       THEN UNCHANGED <<gesture, pendingDblClick>>
       ELSE IF gesture[1].clicks = 0
       THEN /\ gesture' = <<[gesture[1] EXCEPT !.clicks = 1]>>
            /\ UNCHANGED pendingDblClick
       ELSE /\ gesture' = <<>>
            /\ pendingDblClick' = <<[x |-> gesture[1].x, y |-> gesture[1].y,
                                     index |-> gesture[1].index, aps |-> gesture[1].aps]>>
    /\ UNCHANGED <<uploadedPlanImageDataUrl, uploadedPlanNaturalDimensions, reading,
                   decoding, imgComplete, displayedImageDimensions, draggingApIndex,
                   dragStartOffset, pressed, pointer, listeners>>

\* the dblclick is dispatched to the element under the pointer; on a marker:
\* handleApDoubleClick (lines 236-239) and handleDeleteManualAp (App, lines
\* 289-291); elsewhere no handler runs
ApDoubleClick ==
    /\ pendingDblClick # <<>>
    /\ pendingDblClick' = <<>>
    /\ IF MarkerAt(pendingDblClick[1]) # NoIndex
       THEN /\ manualAPs' = RemoveAt(manualAPs, MarkerAt(pendingDblClick[1]))
            /\ lastOp' = "delete"
       ELSE UNCHANGED <<manualAPs, lastOp>>
    /\ UNCHANGED <<uploadedPlanImageDataUrl, uploadedPlanNaturalDimensions, reading,
                   decoding, imgComplete, displayedImageDimensions, draggingApIndex,
                   dragStartOffset, pressed, pointer, pendingClick, gesture, listeners>>

\* the handler's update is rendered before the next event is handled
RenderNow == renderedManualAPs' = manualAPs'

\* the render of the handler's update is left to a later task
RenderLater == UNCHANGED renderedManualAPs

\* every update has been rendered
Rendered == renderedManualAPs = manualAPs

\* the scheduled render of the updates still pending
RenderDeferred ==
    /\ ~Rendered
    /\ renderedManualAPs' = manualAPs
    /\ UNCHANGED <<uploadedPlanImageDataUrl, uploadedPlanNaturalDimensions, manualAPs,
                   reading, decoding, imgComplete, displayedImageDimensions,
                   draggingApIndex, dragStartOffset, pressed, pointer, pendingClick,
                   pendingDblClick, gesture, listeners, lastOp>>

NextUi ==
    \/ HandlePlanImageUpload /\ RenderNow /\ UNCHANGED aiVars /\ UNCHANGED tableVars
    \/ HandlePlanImageUploadNoFile /\ RenderNow /\ UNCHANGED aiVars /\ UNCHANGED tableVars
    \/ ReaderOnLoadEnd /\ RenderNow /\ UNCHANGED aiVars /\ UNCHANGED tableVars
    \/ AppImageOnLoad /\ RenderNow /\ UNCHANGED aiVars /\ UNCHANGED tableVars
    \/ DisplayImageOnLoad /\ RenderNow /\ UNCHANGED aiVars /\ UNCHANGED tableVars
    \/ ClearPlan /\ RenderNow /\ UNCHANGED aiVars /\ UNCHANGED tableVars
    \/ HandleClearAll /\ RenderNow
    \/ ClearManualAPs /\ RenderNow /\ UNCHANGED aiVars /\ UNCHANGED tableVars
    \/ ApMouseDown /\ RenderNow /\ UNCHANGED aiVars /\ UNCHANGED tableVars
    \/ GlobalMouseMove /\ RenderNow /\ UNCHANGED aiVars /\ UNCHANGED tableVars
    \/ GlobalMouseUp /\ RenderNow /\ UNCHANGED aiVars /\ UNCHANGED tableVars
    \/ SurfacePress /\ RenderNow /\ UNCHANGED aiVars /\ UNCHANGED tableVars
    \/ SyntheticClick /\ RenderNow /\ UNCHANGED aiVars /\ UNCHANGED tableVars
    \/ ContainerClick /\ UNCHANGED aiVars /\ UNCHANGED tableVars
    \/ ApDoubleClick /\ RenderNow /\ UNCHANGED aiVars /\ UNCHANGED tableVars

----------------------------------------------------------------------------
(* The metric estimate of a manual AP (src/App.tsx, lines 481-497 and      *)
(* 702-720).  A parsed form value is [numeric, value]: value metres, or    *)
(* NaN when numeric is FALSE.  A table cell is <<>> for 'N/A' and <<h>>    *)
(* for the text of h hundredths of a metre.                                *)

\* values of parseFloat(buildingLength) the form can hold
LengthInputs == {NotANumber} \cup { [numeric |-> TRUE, value |-> v] : v \in {-1, 0, 1, 3, 50} }

\* lines 481-484: the scale as the fraction num / den, 0 / 1 when it stays 0
pixelsPerMeterScaleManual(dims, len) ==
    IF dims # <<>> /\ dims[1].width > 0 /\ len.numeric /\ len.value > 0
    THEN [num |-> dims[1].width, den |-> len.value]
    ELSE [num |-> 0, den |-> 1]

MetricEstimate_ZeroWhenUnavailable(px, scale) ==
    IF scale.num > 0
    THEN <<(2 * px * scale.den * 100 + scale.num) \div (2 * scale.num)>>
    ELSE <<0>>
\* pixelsPerMeterScaleManual > 0 ? (px / pixelsPerMeterScaleManual).toFixed(2) : 'N/A'
MetricEstimate(px, scale) ==
    IF scale.num > 0
    THEN <<(2 * px * scale.den * 100 + scale.num) \div (2 * scale.num)>>
    ELSE <<>>

\* manualAPs.map((ap, index) => [index + 1, ..., x_m, y_m]) (lines 487-497)
ManualTableRows(aps, dims, len) ==
    [i \in 1..Len(aps) |->
        [ap |-> i,
         px |-> aps[i],
         x_m |-> MetricEstimate(aps[i].x, pixelsPerMeterScaleManual(dims, len)),
         y_m |-> MetricEstimate(aps[i].y, pixelsPerMeterScaleManual(dims, len))]]

InitForm ==
    /\ buildingLengthInput = NotANumber
    /\ tableRows = <<>>

\* onChange of the length field (line 551)
SetBuildingLength ==
    /\ \E v \in LengthInputs : buildingLengthInput' = v
    /\ UNCHANGED tableRows

\* handleDownloadManualPdf (lines 396-516): the rows of the table it writes
HandleDownloadManualPdf ==
    /\ uploadedPlanImageDataUrl # 0
    /\ Len(manualAPs) > 0
    /\ tableRows' = ManualTableRows(manualAPs, uploadedPlanNaturalDimensions,
                                    buildingLengthInput)
    /\ UNCHANGED buildingLengthInput

----------------------------------------------------------------------------
(* Specifications *)

\* calculateAPPlacement on every argument triple of the bounds
Init == InitPlacement /\ InitAi /\ apiKeySet /\ InitUi /\ InitForm
Next == NextPlacement /\ UNCHANGED aiVars /\ UNCHANGED uiVars /\ UNCHANGED tableVars
Spec == Init /\ [][Next]_vars

\* the same calls, run to their end: calculateAPPlacement is synchronous, a
\* call that has a step left takes it
SpecTerminates == Init /\ [][Next]_vars /\ WF_vars(Next)

\* the two producers of OptimizationResult, side by side, in metres.
\* calculateAPPlacement is synchronous: no AI event is handled while it runs,
\* and the submit button is disabled while isAiOptimizing (line 560)
InitResults ==
    /\ InitPlacement /\ InitAi /\ InitUi /\ InitForm /\ unitExp = 0
    /\ radius <= MaxDimResults
    /\ buildingLength <= MaxDimResults
    /\ buildingWidth <= MaxDimResults
NextResults ==
    \/ Enter /\ ~isAiOptimizing /\ UNCHANGED aiVars /\ UNCHANGED uiVars /\ UNCHANGED tableVars
    \/ OuterTest /\ UNCHANGED aiVars /\ UNCHANGED uiVars /\ UNCHANGED tableVars
    \/ InnerStep /\ UNCHANGED aiVars /\ UNCHANGED uiVars /\ UNCHANGED tableVars
    \/ RowEnd /\ UNCHANGED aiVars /\ UNCHANGED uiVars /\ UNCHANGED tableVars
    \/ Finish /\ UNCHANGED aiVars /\ UNCHANGED uiVars /\ UNCHANGED tableVars
    \/ HandleAiOptimize /\ pc \in {"start", "done"} /\ UNCHANGED uiVars /\ UNCHANGED tableVars
    \/ AiResponseArrives /\ pc \in {"start", "done"} /\ UNCHANGED uiVars /\ UNCHANGED tableVars
    \/ HandleAiOptimizeResumes /\ pc \in {"start", "done"} /\ UNCHANGED uiVars /\ UNCHANGED tableVars
SpecResults == InitResults /\ [][NextResults]_vars

\* manual placement on an uploaded plan; the form is left as it is
InitManual ==
    /\ InitPlacement /\ InitAi /\ InitUi /\ InitForm /\ apiKeySet
    /\ radius = 1 /\ buildingLength = 1 /\ buildingWidth = 1 /\ unitExp = 0
NextManual ==
    \/ HandlePlanImageUpload /\ RenderNow /\ UNCHANGED placeVars /\ UNCHANGED aiVars /\ UNCHANGED tableVars
    \/ HandlePlanImageUploadNoFile /\ RenderNow /\ UNCHANGED placeVars /\ UNCHANGED aiVars /\ UNCHANGED tableVars
    \/ ReaderOnLoadEnd /\ RenderNow /\ UNCHANGED placeVars /\ UNCHANGED aiVars /\ UNCHANGED tableVars
    \/ AppImageOnLoad /\ RenderNow /\ UNCHANGED placeVars /\ UNCHANGED aiVars /\ UNCHANGED tableVars
    \/ DisplayImageOnLoad /\ RenderNow /\ UNCHANGED placeVars /\ UNCHANGED aiVars /\ UNCHANGED tableVars
    \/ ClearPlan /\ RenderNow /\ UNCHANGED placeVars /\ UNCHANGED aiVars /\ UNCHANGED tableVars
    \/ HandleClearAll /\ RenderNow /\ UNCHANGED placeVars
    \/ ClearManualAPs /\ RenderNow /\ UNCHANGED placeVars /\ UNCHANGED aiVars /\ UNCHANGED tableVars
    \/ ApMouseDown /\ RenderNow /\ UNCHANGED placeVars /\ UNCHANGED aiVars /\ UNCHANGED tableVars
    \/ GlobalMouseMove /\ RenderNow /\ UNCHANGED placeVars /\ UNCHANGED aiVars /\ UNCHANGED tableVars
    \/ GlobalMouseUp /\ RenderNow /\ UNCHANGED placeVars /\ UNCHANGED aiVars /\ UNCHANGED tableVars
    \/ SurfacePress /\ RenderNow /\ UNCHANGED placeVars /\ UNCHANGED aiVars /\ UNCHANGED tableVars
    \/ SyntheticClick /\ RenderNow /\ UNCHANGED placeVars /\ UNCHANGED aiVars /\ UNCHANGED tableVars
    \/ ContainerClick /\ UNCHANGED placeVars /\ UNCHANGED aiVars /\ UNCHANGED tableVars
    \/ ApDoubleClick /\ RenderNow /\ UNCHANGED placeVars /\ UNCHANGED aiVars /\ UNCHANGED tableVars
SpecManual == InitManual /\ [][NextManual]_vars

\* The manual placement UI when React leaves a render to a later task.  The
\* update of handleMoveManualAp is made in a native mousemove listener (lines
\* 272-281), which React schedules at continuous-input priority and renders in
\* a task of its scheduler; the updates of mouseup and click are discrete and
\* rendered synchronously, without the pending update of the move.  Until
\* RenderDeferred, handlePlanClick is the closure of the last render of App
NextRender ==
    \/ Rendered /\ HandlePlanImageUpload /\ RenderNow /\ UNCHANGED placeVars /\ UNCHANGED aiVars /\ UNCHANGED tableVars
    \/ Rendered /\ HandlePlanImageUploadNoFile /\ RenderNow /\ UNCHANGED placeVars /\ UNCHANGED aiVars /\ UNCHANGED tableVars
    \/ Rendered /\ ReaderOnLoadEnd /\ RenderNow /\ UNCHANGED placeVars /\ UNCHANGED aiVars /\ UNCHANGED tableVars
    \/ Rendered /\ AppImageOnLoad /\ RenderNow /\ UNCHANGED placeVars /\ UNCHANGED aiVars /\ UNCHANGED tableVars
    \/ Rendered /\ DisplayImageOnLoad /\ RenderNow /\ UNCHANGED placeVars /\ UNCHANGED aiVars /\ UNCHANGED tableVars
    \/ Rendered /\ ClearPlan /\ RenderNow /\ UNCHANGED placeVars /\ UNCHANGED aiVars /\ UNCHANGED tableVars
    \/ Rendered /\ HandleClearAll /\ RenderNow /\ UNCHANGED placeVars
    \/ Rendered /\ ClearManualAPs /\ RenderNow /\ UNCHANGED placeVars /\ UNCHANGED aiVars /\ UNCHANGED tableVars
    \/ Rendered /\ ApMouseDown /\ RenderNow /\ UNCHANGED placeVars /\ UNCHANGED aiVars /\ UNCHANGED tableVars
    \/ GlobalMouseMove /\ RenderLater /\ UNCHANGED placeVars /\ UNCHANGED aiVars /\ UNCHANGED tableVars
    \/ GlobalMouseUp /\ RenderLater /\ UNCHANGED placeVars /\ UNCHANGED aiVars /\ UNCHANGED tableVars
    \/ Rendered /\ SurfacePress /\ RenderNow /\ UNCHANGED placeVars /\ UNCHANGED aiVars /\ UNCHANGED tableVars
    \/ SyntheticClick /\ RenderLater /\ UNCHANGED placeVars /\ UNCHANGED aiVars /\ UNCHANGED tableVars
    \/ ContainerClick /\ UNCHANGED placeVars /\ UNCHANGED aiVars /\ UNCHANGED tableVars
    \/ Rendered /\ ApDoubleClick /\ RenderNow /\ UNCHANGED placeVars /\ UNCHANGED aiVars /\ UNCHANGED tableVars
    \/ RenderDeferred /\ UNCHANGED placeVars /\ UNCHANGED aiVars /\ UNCHANGED tableVars
SpecRender == InitManual /\ [][NextRender]_vars

\* the metric estimates of a plan with marks: a plan is shown, its natural
\* dimensions are unknown (not decoded yet, or the decode failed), reported
\* as 0 x 0 (an image without intrinsic size) or known; the length field is
\* edited and the PDF table is written
MetricPoints == { [x |-> 0, y |-> 0], [x |-> 100, y |-> 100],
                  [x |-> 32, y |-> 96], [x |-> 256, y |-> 256] }
InitMetric ==
    /\ InitPlacement /\ InitAi /\ apiKeySet
    /\ radius = 1 /\ buildingLength = 1 /\ buildingWidth = 1 /\ unitExp = 0
    /\ uploadedPlanImageDataUrl \in Files
    /\ uploadedPlanNaturalDimensions \in
          {<<>>, <<[width |-> 0, height |-> 0]>>, <<NaturalSize(uploadedPlanImageDataUrl)>>}
    /\ manualAPs \in UNION { [1..n -> MetricPoints] : n \in 1..MaxAPs }
    /\ renderedManualAPs = manualAPs
    /\ reading = {}
    /\ decoding = {}
    /\ imgComplete = TRUE
    /\ displayedImageDimensions =
          [width |-> ImageDisplayRect(uploadedPlanImageDataUrl).width,
           height |-> ImageDisplayRect(uploadedPlanImageDataUrl).height]
    /\ draggingApIndex = NoIndex
    /\ dragStartOffset = <<>>
    /\ pressed = FALSE
    /\ pointer = <<>>
    /\ pendingClick = <<>>
    /\ pendingDblClick = <<>>
    /\ gesture = <<>>
    /\ listeners = FALSE
    /\ lastOp = "none"
    /\ buildingLengthInput \in LengthInputs
    /\ tableRows = <<>>
NextMetric ==
    \/ SetBuildingLength /\ UNCHANGED placeVars /\ UNCHANGED aiVars /\ UNCHANGED uiVars
    \/ HandleDownloadManualPdf /\ UNCHANGED placeVars /\ UNCHANGED aiVars /\ UNCHANGED uiVars
SpecMetric == InitMetric /\ [][NextMetric]_vars

----------------------------------------------------------------------------
(* Properties of calculateAPPlacement.  The quantities the statements name *)
(* are written out here from the statements, not taken from the operators  *)
(* above.                                                                  *)

Returned == pc = "done" /\ Len(result) = 1

PositiveArgs == radius > 0 /\ buildingLength > 0 /\ buildingWidth > 0

\* sqrt(2) * radius < 1e-6
BelowEpsilon == 2 * unitExp > 12 /\ 2 * radius * radius < Pow10(2 * unitExp - 12)

\* ceil(d / (sqrt(2) * radius)) for d > 0
GridCount(d) ==
    CHOOSE n \in 1..d : /\ 2 * n * n * radius * radius >= d * d
                        /\ 2 * (n - 1) * (n - 1) * radius * radius < d * d

\* t = ceil(length * width / (2 * radius^2))
IsCeilingOfAreaRatio(t) ==
    /\ t * 2 * radius * radius >= buildingLength * buildingWidth
    /\ (t - 1) * 2 * radius * radius < buildingLength * buildingWidth

\* (idx + 0.5) * extent / count, rounded half up to hundredths of a metre
RoundedCentre(idx, extent, count) ==
    IF unitExp <= 2
    THEN ((2 * idx + 1) * extent * Pow10(2 - unitExp) + count) \div (2 * count)
    ELSE ((2 * idx + 1) * extent + count * Pow10(unitExp - 2))
             \div (2 * count * Pow10(unitExp - 2))

\* h hundredths of a metre do not exceed n units
WithinExtent(h, n) ==
    IF unitExp <= 2 THEN h <= n * Pow10(2 - unitExp) ELSE h * Pow10(unitExp - 2) <= n

\* C1: a call with radius <= 0 or length <= 0 or width <= 0 returns an empty
\* coordinate sequence, nAP = 0 and a non-empty message
C1_DegenerateArgsReturnEmpty ==
    (pc = "done" /\ (radius <= 0 \/ buildingLength <= 0 \/ buildingWidth <= 0)) =>
        /\ Len(result) = 1
        /\ result[1].coordinates = <<>>
        /\ result[1].nAP = 0
        /\ result[1].message # ""

\* calculateAPPlacement(0, 10, 10) has returned
C1_Witness ==
    /\ Returned /\ radius = 0 /\ buildingLength = 1 /\ buildingWidth = 1 /\ unitExp = -1
    /\ result[1].nAP = 0 /\ result[1].message # ""

\* C2 as stated: for all positive arguments the returned count is at least 1
\* and equals ceil(length * width / (2 * radius^2))
C2_CountIsCeilingForAllPositive ==
    (Returned /\ PositiveArgs) =>
        (result[1].nAP >= 1 /\ IsCeilingOfAreaRatio(result[1].nAP))

\* C2 amended: the same for positive arguments with sqrt(2) * radius >= 1e-6;
\* a positive radius below that returns count 0 with a message
C2_CountIsCeilingAboveEpsilon ==
    (Returned /\ PositiveArgs) =>
        IF BelowEpsilon
        THEN result[1].nAP = 0 /\ result[1].coordinates = <<>> /\ result[1].message # ""
        ELSE result[1].nAP >= 1 /\ IsCeilingOfAreaRatio(result[1].nAP)

\* a count above 1 returned together with the small-building advisory
C2_Witness ==
    /\ Returned /\ PositiveArgs /\ ~BelowEpsilon
    /\ result[1].nAP >= 2
    /\ result[1].message # ""
    /\ buildingWidth * buildingWidth < 2 * radius * radius

\* C3: every returned (rounded) coordinate satisfies 0 <= x <= length and
\* 0 <= y <= width
C3_CoordinatesWithinBuilding ==
    Returned =>
        \A i \in 1..Len(result[1].coordinates) :
            LET ap == result[1].coordinates[i] IN
            /\ ap.x >= 0 /\ WithinExtent(ap.x, buildingLength)
            /\ ap.y >= 0 /\ WithinExtent(ap.y, buildingWidth)

\* C4 as stated: every cell of the cols x rows grid has its centre among the
\* returned coordinates
C4_EveryGridCellHasCentre ==
    (Returned /\ PositiveArgs /\ ~BelowEpsilon) =>
        \A row \in 0..(GridCount(buildingWidth) - 1) :
            \A col \in 0..(GridCount(buildingLength) - 1) :
                \E i \in 1..Len(result[1].coordinates) :
                    result[1].coordinates[i] =
                        [x |-> RoundedCentre(col, buildingLength, GridCount(buildingLength)),
                         y |-> RoundedCentre(row, buildingWidth, GridCount(buildingWidth))]

\* C4 amended: the grid has at least target cells, and every cell whose
\* row-major index is below target = ceil(length * width / (2 * radius^2))
\* has its centre among the returned coordinates; no more than target
\* coordinates are returned, so the remaining cells get none
C4_FirstTargetCellsHaveCentre ==
    (Returned /\ PositiveArgs /\ ~BelowEpsilon) =>
        LET cols == GridCount(buildingLength)
            rows == GridCount(buildingWidth)
            target == CHOOSE t \in 1..(cols * rows) : IsCeilingOfAreaRatio(t)
        IN /\ \E t \in 1..(cols * rows) : IsCeilingOfAreaRatio(t)
           /\ Len(result[1].coordinates) <= target
           /\ \A row \in 0..(rows - 1) : \A col \in 0..(cols - 1) :
                 row * cols + col < target =>
                    \E i \in 1..Len(result[1].coordinates) :
                        result[1].coordinates[i] =
                            [x |-> RoundedCentre(col, buildingLength, cols),
                             y |-> RoundedCentre(row, buildingWidth, rows)]

\* a returned placement that leaves grid cells without a coordinate
C4_Witness ==
    /\ Returned /\ PositiveArgs /\ ~BelowEpsilon
    /\ result[1].nAP >= 2
    /\ result[1].nAP < GridCount(buildingLength) * GridCount(buildingWidth)

\* C5: the k-th returned coordinate (from 0) is the rounded centre of the cell
\* in row k div cols and column k mod cols
C5_RowMajorOrder ==
    (Returned /\ PositiveArgs /\ ~BelowEpsilon) =>
        LET cols == GridCount(buildingLength)
            rows == GridCount(buildingWidth)
        IN \A k \in 0..(result[1].nAP - 1) :
              /\ k + 1 <= Len(result[1].coordinates)
              /\ result[1].coordinates[k + 1] =
                    [x |-> RoundedCentre(k % cols, buildingLength, cols),
                     y |-> RoundedCentre(k \div cols, buildingWidth, rows)]

\* a returned placement that reaches into the third row of a grid of several columns
C5_Witness ==
    /\ Returned /\ PositiveArgs /\ ~BelowEpsilon
    /\ GridCount(buildingLength) >= 2
    /\ result[1].nAP > 2 * GridCount(buildingLength)

\* C6: calculateAPPlacement(10, 50, 30) computes target 8, 4 columns, 3 rows,
\* cells of 12.5 by 10 and returns exactly 8 coordinates, the first (6.25, 5.0)
C6_Scenario10x50x30 ==
    (radius = 1 /\ buildingLength = 5 /\ buildingWidth = 3 /\ unitExp = -1) =>
        /\ nAP_target(radius, buildingLength, buildingWidth) = 8
        /\ num_placement_cols(radius, buildingLength) = 4
        /\ num_placement_rows(radius, buildingWidth) = 3
        /\ LET w == cell_placement_width(radius, buildingLength)
               h == cell_placement_height(radius, buildingWidth)
           IN /\ 2 * 10 * w.num = 25 * w.den
              /\ 10 * h.num = 10 * h.den
        /\ Len(resultado) <= 8
        /\ pc = "done" =>
              /\ Len(result) = 1
              /\ result[1].nAP = 8
              /\ Len(result[1].coordinates) = 8
              /\ result[1].coordinates[1] = [x |-> 625, y |-> 500]

\* calculateAPPlacement(10, 50, 30) has returned
C6_Witness ==
    /\ Returned /\ radius = 1 /\ buildingLength = 5 /\ buildingWidth = 3 /\ unitExp = -1
    /\ result[1].nAP = 8

\* C7: every OptimizationResult has nAP equal to the length of its coordinates:
\* the value returned by calculateAPPlacement, the value returned by
\* getAiPlacementSuggestions and the value handleAiOptimize stores
C7_CountEqualsLength ==
    /\ Len(result) = 1 => result[1].nAP = Len(result[1].coordinates)
    /\ Len(aiData) = 1 => aiData[1].nAP = Len(aiData[1].coordinates)
    /\ Len(aiResults) = 1 => aiResults[1].nAP = Len(aiResults[1].coordinates)

\* both producers have delivered a non-empty result
C7_Witness ==
    /\ Returned /\ result[1].nAP >= 2
    /\ Len(aiData) = 1 /\ aiData[1].nAP = 1
    /\ Len(aiResults) = 1 /\ aiResults[1].nAP = 1

----------------------------------------------------------------------------
(* Properties of manual placement *)

SqDist(a, b) == (a.x - b.x) * (a.x - b.x) + (a.y - b.y) * (a.y - b.y)

\* the pending click passes the guards of handleContainerClick: no drag in
\* progress, image decoded, position inside the displayed image
ClickReachesFilter ==
    /\ pendingClick # <<>>
    /\ draggingApIndex = NoIndex
    /\ uploadedPlanImageDataUrl # 0 /\ imgComplete
    /\ LET rect == ImageDisplayRect(uploadedPlanImageDataUrl) IN
       /\ pendingClick[1].x - rect.left >= 0
       /\ pendingClick[1].x - rect.left <= rect.width
       /\ pendingClick[1].y - rect.top >= 0
       /\ pendingClick[1].y - rect.top <= rect.height

\* the natural-pixel candidate of the pending click
ClickCandidate ==
    LET rect == ImageDisplayRect(uploadedPlanImageDataUrl)
        natural == NaturalSize(uploadedPlanImageDataUrl)
    IN [x |-> ((pendingClick[1].x - rect.left) * natural.width) \div rect.width,
        y |-> ((pendingClick[1].y - rect.top) * natural.height) \div rect.height]

C9_DragFollowsPointerMinusOffset ==
    [][ /\ ( /\ pressed /\ pressed'
             /\ draggingApIndex # NoIndex /\ draggingApIndex < Len(manualAPs)
             /\ dragStartOffset # <<>>
             /\ uploadedPlanImageDataUrl # 0 /\ imgComplete
             /\ uploadedPlanImageDataUrl' = uploadedPlanImageDataUrl /\ imgComplete'
             /\ lastOp' = "move" )
           => LET rect == ImageDisplayRect(uploadedPlanImageDataUrl)
                  natural == NaturalSize(uploadedPlanImageDataUrl)
                  dx == pointer'[1].x - rect.left - dragStartOffset[1].x
                  dy == pointer'[1].y - rect.top - dragStartOffset[1].y
                  nx == (dx * natural.width) \div displayedImageDimensions.width
                  ny == (dy * natural.height) \div displayedImageDimensions.height
                  cx == IF nx < 0 THEN 0 ELSE IF nx > natural.width THEN natural.width ELSE nx
                  cy == IF ny < 0 THEN 0 ELSE IF ny > natural.height THEN natural.height ELSE ny
              IN manualAPs' = [manualAPs EXCEPT ![draggingApIndex + 1] = [x |-> cx, y |-> cy]]
        /\ DraggedPosition([x |-> 150 + 8, y |-> 100 + 16], ImageDisplayRect(1),
                           [x |-> 5, y |-> 5], [width |-> 256, height |-> 256],
                           NaturalSize(1)) = [x |-> 145, y |-> 95] ]_vars

\* an AP pressed off its centre has been dragged: it sits at pointer minus offset
C9_Witness ==
    /\ lastOp = "move"
    /\ pressed
    /\ uploadedPlanImageDataUrl = 1
    /\ dragStartOffset = <<[x |-> 3, y |-> 4]>>
    /\ pointer = <<[x |-> 158, y |-> 116]>>
    /\ draggingApIndex = 0
    /\ Len(manualAPs) >= 1
    /\ manualAPs[1] = [x |-> 147, y |-> 96]

\* C10: the click dispatched after a press and release that began on a marker
\* never changes manualAPs
C10_ClickAfterMarkerReleaseAddsNothing ==
    [][ (pendingClick # <<>> /\ pendingClick[1].from = "marker" /\ pendingClick' = <<>>)
            => manualAPs' = manualAPs ]_vars

\* C11: a double-click that began on the marker of index i (press, release,
\* click, press, release, click, dblclick at one position, no plan loaded in
\* between) leaves manualAPs equal to its contents before the first press with
\* exactly element i removed and the others in their order
C11_DoubleClickRemovesExactlyThatPoint ==
    [][ ( /\ pendingDblClick # <<>> /\ pendingDblClick' = <<>>
          /\ pendingDblClick[1].index # NoIndex )
        => LET before == pendingDblClick[1].aps
               i == pendingDblClick[1].index
           IN /\ Len(manualAPs') = Len(before) - 1
              /\ \A k \in 1..Len(manualAPs') :
                    manualAPs'[k] = IF k <= i THEN before[k] ELSE before[k + 1] ]_vars

\* the indices (from 1) of the points whose marker lies under a client position
MarkersUnder(ev) ==
    { k \in 1..Len(manualAPs) :
        LET rect == ImageDisplayRect(uploadedPlanImageDataUrl)
            natural == NaturalSize(uploadedPlanImageDataUrl)
            cx == (manualAPs[k].x * displayedImageDimensions.width) \div natural.width
            cy == (manualAPs[k].y * displayedImageDimensions.height) \div natural.height
        IN (ev.x - rect.left - cx) * (ev.x - rect.left - cx)
             + (ev.y - rect.top - cy) * (ev.y - rect.top - cy) <= 45 }

\* C12: a pointer-down on the marker of index i received in Idle leaves the
\* display Dragging(i, offset), offset = pointer position on the image minus
\* the display-space centre of point i, and leaves manualAPs unchanged
C12_PressStartsDragWithOffset ==
    [][ (~pressed /\ pressed' /\ draggingApIndex = NoIndex)
        => LET ev == pointer'[1]
               rect == ImageDisplayRect(uploadedPlanImageDataUrl)
               natural == NaturalSize(uploadedPlanImageDataUrl)
               top == CHOOSE k \in MarkersUnder(ev) : \A j \in MarkersUnder(ev) : j <= k
               cx == (manualAPs[top].x * displayedImageDimensions.width) \div natural.width
               cy == (manualAPs[top].y * displayedImageDimensions.height) \div natural.height
           IN /\ MarkersUnder(ev) # {}
              /\ draggingApIndex' = top - 1
              /\ dragStartOffset' = <<[x |-> ev.x - rect.left - cx,
                                       y |-> ev.y - rect.top - cy]>>
              /\ manualAPs' = manualAPs ]_vars

\* the upper of two overlapping markers has been pressed off its centre
C12_Witness ==
    /\ lastOp = "down" /\ pressed
    /\ Len(manualAPs) = 2
    /\ draggingApIndex = 1
    /\ dragStartOffset = <<[x |-> 0 - 3, y |-> 0 - 4]>>

\* the natural position for a pointer at ev dragged with the captured offset:
\* (position on the image - offset) scaled to natural pixels, kept inside
\* [0, naturalWidth] x [0, naturalHeight]
PositionFor(ev, offset) ==
    LET rect == ImageDisplayRect(uploadedPlanImageDataUrl)
        natural == NaturalSize(uploadedPlanImageDataUrl)
        nx == ((ev.x - rect.left - offset.x) * natural.width)
                  \div displayedImageDimensions.width
        ny == ((ev.y - rect.top - offset.y) * natural.height)
                  \div displayedImageDimensions.height
    IN [x |-> IF nx < 0 THEN 0 ELSE IF nx > natural.width THEN natural.width ELSE nx,
        y |-> IF ny < 0 THEN 0 ELSE IF ny > natural.height THEN natural.height ELSE ny]

\* C13: a pointer-up while Dragging(i, _) leaves the display Idle and manualAPs
\* as it was; when it follows pointer-moves, element i is the position computed
\* from the last of them; and no pointer-move changes manualAPs in Idle
C13_ReleaseKeepsLastMove ==
    [][ /\ (pressed /\ ~pressed' /\ draggingApIndex # NoIndex)
            => /\ draggingApIndex' = NoIndex
               /\ dragStartOffset' = <<>>
               /\ manualAPs' = manualAPs
               /\ (lastOp = "move" /\ draggingApIndex < Len(manualAPs))
                     => manualAPs'[draggingApIndex + 1] =
                            PositionFor(pointer[1], dragStartOffset[1])
        /\ (draggingApIndex = NoIndex /\ manualAPs' # manualAPs)
            => lastOp' # "move" ]_vars

\* a point dragged from (100,100) has been released where the last move put it
C13_Witness ==
    /\ lastOp = "up" /\ ~pressed
    /\ draggingApIndex = NoIndex /\ dragStartOffset = <<>>
    /\ uploadedPlanImageDataUrl = 1
    /\ Len(manualAPs) >= 1
    /\ manualAPs[1] = [x |-> 147, y |-> 96]

\* the pending click lies outside the displayed image, or the image has not
\* been decoded
ClickOutsideOrEarly ==
    /\ pendingClick # <<>>
    /\ \/ ~imgComplete
       \/ pendingClick[1].x < ImageDisplayRect(uploadedPlanImageDataUrl).left
       \/ pendingClick[1].x > ImageDisplayRect(uploadedPlanImageDataUrl).left
                                 + ImageDisplayRect(uploadedPlanImageDataUrl).width
       \/ pendingClick[1].y < ImageDisplayRect(uploadedPlanImageDataUrl).top
       \/ pendingClick[1].y > ImageDisplayRect(uploadedPlanImageDataUrl).top
                                 + ImageDisplayRect(uploadedPlanImageDataUrl).height

\* C14: a click on the container outside the displayed image rectangle, or
\* before the image has decoded, changes neither manualAPs nor the drag state
\* nor anything else of the App and the display, and does not reach the
\* proximity filter
C14_ClickOutsideImageIgnored ==
    [][ (ClickOutsideOrEarly /\ pendingClick' = <<>>)
        => /\ manualAPs' = manualAPs
           /\ draggingApIndex' = draggingApIndex
           /\ dragStartOffset' = dragStartOffset
           /\ listeners' = listeners
           /\ uploadedPlanImageDataUrl' = uploadedPlanImageDataUrl
           /\ uploadedPlanNaturalDimensions' = uploadedPlanNaturalDimensions
           /\ displayedImageDimensions' = displayedImageDimensions
           /\ imgComplete' = imgComplete
           /\ lastOp' \notin {"add", "tooClose"} ]_vars

\* a click outside a decoded image that carries a point has been ignored
C14_Witness ==
    /\ lastOp = "clickIgnored"
    /\ uploadedPlanImageDataUrl # 0 /\ imgComplete
    /\ draggingApIndex = NoIndex
    /\ Len(manualAPs) >= 1

\* C15: in every state the window mousemove and mouseup listeners are attached
\* if and only if the display is Dragging (draggingApIndex is not null)
C15_ListenersAttachedIffDragging ==
    listeners <=> (draggingApIndex # NoIndex)

\* a drag under way with the listeners attached, after a move was handled
C15_Witness ==
    /\ listeners /\ pressed
    /\ draggingApIndex = 0
    /\ lastOp = "move"

\* the handlers that load a new plan, remove the plan or reset the session
PlanResetOps == {"loadend", "uploadNone", "clearPlan", "clearAll"}

\* C16: manualAPs is empty right after a new plan image has been loaded, after
\* the plan is removed and after clear all, whatever it held; otherwise it
\* changes only by a manual edit (add, move, delete, clear marks) and loses
\* points only by a delete or clear marks
C16_ClearedOnNewPlanAndReset ==
    [][ /\ lastOp' \in PlanResetOps => manualAPs' = <<>>
        /\ manualAPs' # manualAPs
             => lastOp' \in PlanResetOps \cup {"add", "move", "delete", "clearMarks"}
        /\ Len(manualAPs') < Len(manualAPs)
             => lastOp' \in PlanResetOps \cup {"delete", "clearMarks"} ]_vars

\* a new plan has been loaded over a plan that carried a point: the click
\* sequence begun on that point's marker still records it
C16_Witness ==
    /\ lastOp = "loadend"
    /\ manualAPs = <<>>
    /\ gesture # <<>>
    /\ Len(gesture[1].aps) >= 1

----------------------------------------------------------------------------
(* Properties of the metric estimate *)

\* the scale is unavailable: natural dimensions unknown, natural width 0, or
\* the length not a number, zero or negative
ScaleUnavailable ==
    \/ uploadedPlanNaturalDimensions = <<>>
    \/ uploadedPlanNaturalDimensions[1].width = 0
    \/ ~buildingLengthInput.numeric
    \/ buildingLengthInput.value <= 0

\* the cell shows, to two decimals, px / (naturalWidth / length): h hundredths
\* within half a hundredth of it
ShowsEstimate(cell, px) ==
    /\ Len(cell) = 1
    /\ LET nw == uploadedPlanNaturalDimensions[1].width
           exact == 100 * px * buildingLengthInput.value    \* times nw
       IN /\ 2 * (exact - cell[1] * nw) <= nw
          /\ 2 * (cell[1] * nw - exact) <= nw

\* C17: the table written for manualAPs shows 'N/A' for x and y of every point
\* when the scale is unavailable (never a number), and otherwise
\* pixel / (naturalWidth / length) to two decimals for both
C17_MetricEstimateOrUnavailable ==
    [][ tableRows' # tableRows
        => /\ Len(tableRows') = Len(manualAPs)
           /\ \A i \in 1..Len(manualAPs) :
                 IF ScaleUnavailable
                 THEN tableRows'[i].x_m = <<>> /\ tableRows'[i].y_m = <<>>
                 ELSE /\ ShowsEstimate(tableRows'[i].x_m, manualAPs[i].x)
                      /\ ShowsEstimate(tableRows'[i].y_m, manualAPs[i].y) ]_vars

\* a table written for a plan whose natural width is 0, with a valid length
C17_Witness ==
    /\ tableRows # <<>>
    /\ uploadedPlanNaturalDimensions = <<[width |-> 0, height |-> 0]>>
    /\ buildingLengthInput = [numeric |-> TRUE, value |-> 50]
    /\ tableRows[1].px = [x |-> 100, y |-> 100]
    /\ tableRows[1].x_m = <<>> /\ tableRows[1].y_m = <<>>

----------------------------------------------------------------------------
(* Properties of the AI suggestions (values of a suggestion in thousandths *)
(* of a metre, stored coordinates in hundredths, lengths in metres)        *)

\* the suggested point is numeric and inside [0, length] x [0, width]
ValidSuggestion(p) ==
    /\ p.numeric
    /\ p.x >= 0 /\ p.x <= 1000 * buildingLength
    /\ p.y >= 0 /\ p.y <= 1000 * buildingWidth

\* a valid value as it is stored, to two decimals
Stored(t) == (t + 5) \div 10

\* handleAiOptimize resumes in this step with the outcome of a parsed response
AiAnswered == isAiOptimizing /\ ~isAiOptimizing' /\ lastParsedData # <<>>

\* C18: after validation the stored result holds exactly the valid points of
\* the suggestion set (numeric and inside [0, length] x [0, width]), in their
\* order; every other point is dropped, none is moved into range and kept
C18_InvalidPointsDroppedIndividually ==
    [][ AiAnswered
        => LET kept == SelectSeq(lastParsedData[1], ValidSuggestion) IN
           /\ Len(aiResults') = 1
           /\ aiResults'[1].coordinates =
                 [i \in 1..Len(kept) |-> [x |-> Stored(kept[i].x),
                                           y |-> Stored(kept[i].y)]] ]_vars

\* t thousandths to two decimals, the sign kept, in hundredths
ToTwoDecimals(t) == IF t >= 0 THEN (t + 5) \div 10 ELSE 0 - ((5 - t) \div 10)

\* validation drops the point: to two decimals it is outside
\* [0, length] x [0, width]
DroppedByValidation(p) ==
    \/ ToTwoDecimals(p.x) < 0 \/ ToTwoDecimals(p.x) > 100 * buildingLength
    \/ ToTwoDecimals(p.y) < 0 \/ ToTwoDecimals(p.y) > 100 * buildingWidth

----------------------------------------------------------------------------
(* The advisory message of calculateAPPlacement *)

\* C20: for positive arguments that pass both guards, the returned result
\* carries a message if and only if length < sqrt(2) * radius or
\* width < sqrt(2) * radius, and a result with that message has at least one
\* coordinate
C20_AdvisoryIffSmallBuilding ==
    (Returned /\ PositiveArgs /\ ~BelowEpsilon) =>
        /\ (result[1].message # "")
              <=> ( \/ buildingLength * buildingLength < 2 * radius * radius
                    \/ buildingWidth * buildingWidth < 2 * radius * radius )
        /\ (result[1].message # "") => Len(result[1].coordinates) >= 1

\* a building shorter than one cell but several cells wide has been placed:
\* advisory attached, one column of coordinates returned
C20_Witness ==
    /\ Returned /\ PositiveArgs /\ ~BelowEpsilon
    /\ buildingLength * buildingLength < 2 * radius * radius
    /\ buildingWidth * buildingWidth >= 2 * radius * radius
    /\ result[1].message = MsgSmallBuilding
    /\ Len(result[1].coordinates) >= 2

\* the plan image of the display is the file whose decode by the App's
\* new Image() has not completed
CurrentImageDecoding ==
    uploadedPlanImageDataUrl # 0 /\ uploadedPlanImageDataUrl \in decoding

\* C21: at every moment at which the currently selected image has not finished
\* decoding, the stored natural dimensions are null
C21_DimensionsNullUntilDecoded ==
    CurrentImageDecoding => uploadedPlanNaturalDimensions = <<>>

\* C22: every point of manualAPs lies in [0, naturalWidth] x [0, naturalHeight]
\* of the current image, whatever loads, clicks, drags, releases and
\* double-clicks came before
C22_PointsInsideNaturalImage ==
    \A i \in 1..Len(manualAPs) :
        /\ uploadedPlanImageDataUrl # 0
        /\ manualAPs[i].x >= 0
        /\ manualAPs[i].x <= (IF uploadedPlanImageDataUrl = 1 THEN 256 ELSE 512)
        /\ manualAPs[i].y >= 0
        /\ manualAPs[i].y <= 256

\* a drag has left the image of the 512-pixel plan on the left and below, and
\* the point sits in its lower left corner, next to a point inside
C22_Witness ==
    /\ uploadedPlanImageDataUrl = 2
    /\ lastOp = "move"
    /\ Len(manualAPs) = 2
    /\ \E i, j \in 1..2 :
          /\ manualAPs[i] = [x |-> 0, y |-> 256]
          /\ manualAPs[j].x > 0 /\ manualAPs[j].y < 256

\* C23: the offset captured by the press stays as it is for as long as the
\* button is held, and a pointer-move at the position of the press, handled
\* first after it, leaves manualAPs as it was before the drag
C23_MoveAtPressPositionKeepsPoint ==
    [][ /\ (pressed /\ pressed' /\ draggingApIndex # NoIndex)
            => (dragStartOffset' = dragStartOffset /\ draggingApIndex' = draggingApIndex)
        /\ (pressed /\ lastOp = "down" /\ lastOp' = "move" /\ pointer' = pointer)
            => manualAPs' = manualAPs ]_vars

\* on the 512-pixel plan shown at half size, the point at natural (200,200) was
\* pressed 3 px right and 4 px below its centre, a move at that position has
\* been handled and the point is where it was
C23_Witness ==
    /\ uploadedPlanImageDataUrl = 2
    /\ lastOp = "move"
    /\ pressed
    /\ draggingApIndex = 0
    /\ dragStartOffset = <<[x |-> 3, y |-> 4]>>
    /\ pointer = <<[x |-> 111, y |-> 120]>>
    /\ manualAPs = <<[x |-> 200, y |-> 200]>>

\* max(1, ceil(length * width / (2 * radius^2))) for positive arguments
TargetCount ==
    IF buildingLength * buildingWidth <= 2 * radius * radius THEN 1
    ELSE CHOOSE t \in 1..(buildingLength * buildingWidth) : IsCeilingOfAreaRatio(t)

\* C24: every call returns; the enumeration never holds more than target
\* coordinates; once it holds target coordinates no further cell is computed,
\* neither loop counter advances and the call goes on to return
C24_EnumerationStopsAtTarget ==
    /\ <>(pc = "done")
    /\ []((PositiveArgs /\ ~BelowEpsilon) => Len(resultado) <= TargetCount)
    /\ [][ (PositiveArgs /\ ~BelowEpsilon /\ Len(resultado) >= TargetCount) =>
              /\ resultado' = resultado
              /\ r_idx' = r_idx /\ c_idx' = c_idx
              /\ pc' \in {"rowend", "map", "done"} ]_vars

\* a call has returned after stopping in the middle of a row with rows left
C24_Witness ==
    /\ Returned /\ PositiveArgs /\ ~BelowEpsilon
    /\ Len(resultado) = TargetCount
    /\ c_idx > 0 /\ c_idx < GridCount(buildingLength)
    /\ r_idx + 1 < GridCount(buildingWidth)
    /\ visited = TargetCount + 1

\* C25: with the button up (no drag under way, or the drag ended by the
\* pointer-up), a pointer-move, and the release of a press made on the surface,
\* leave the display Idle and manualAPs as it was
C25_MoveOrUpWhileIdleChangesNothing ==
    [][ ( /\ ~pressed /\ ~pressed'
          /\ \/ lastOp' \in {"move", "moveIgnored"}
             \/ (pendingClick = <<>> /\ pendingClick' # <<>>) )
        => /\ draggingApIndex' = 0 - 1
           /\ dragStartOffset' = <<>>
           /\ manualAPs' = manualAPs ]_vars

\* a point was dragged to (147,96) and released; a pointer-move has arrived
\* after the release and the point is where the drag left it
C25_Witness ==
    /\ lastOp = "moveIgnored"
    /\ ~pressed
    /\ draggingApIndex = NoIndex /\ dragStartOffset = <<>>
    /\ uploadedPlanImageDataUrl = 1
    /\ Len(manualAPs) >= 1
    /\ manualAPs[1] = [x |-> 147, y |-> 96]

\* C26: a click that reaches the container while an AP is being dragged leaves
\* manualAPs as it is, wherever it is and however far from the existing points
C26_ClickWhileDraggingAddsNothing ==
    [][ (pendingClick # <<>> /\ pendingClick' = <<>> /\ pressed /\ draggingApIndex >= 0)
            => manualAPs' = manualAPs ]_vars

\* while the only point, at (100,100), is held, a click at natural (150,100),
\* inside the image and 50 pixels from the point, has been ignored
C26_Witness ==
    /\ lastOp = "clickIgnored"
    /\ pressed /\ draggingApIndex = 0
    /\ uploadedPlanImageDataUrl = 1 /\ imgComplete
    /\ manualAPs = <<[x |-> 100, y |-> 100]>>
    /\ pendingClick = <<>>

\* any two distinct elements are at squared distance 25 or more
PairwiseApart(aps) ==
    \A i, j \in 1..Len(aps) :
        i # j => (aps[i].x - aps[j].x) * (aps[i].x - aps[j].x)
                 + (aps[i].y - aps[j].y) * (aps[i].y - aps[j].y) >= 25

\* C27: manualAPs starts empty, and every step other than a drag move takes a
\* manualAPs whose elements are pairwise at squared distance >= 25 to one that
\* is so again; hence the elements are pairwise apart after any sequence of
\* click-to-add, double-click-to-delete and clear
C27_PairwiseApartWithoutDrag ==
    [][ (PairwiseApart(manualAPs) /\ ~(lastOp' = "move" /\ manualAPs' # manualAPs))
            => PairwiseApart(manualAPs') ]_vars

\* with a point at (100,100), a click on the same spot has been turned down
\* and a click 5 pixels away accepted
C27_Witness ==
    /\ lastOp = "tooClose"
    /\ uploadedPlanImageDataUrl = 1
    /\ manualAPs = <<[x |-> 100, y |-> 100], [x |-> 103, y |-> 104]>>

\* C28: for every click-to-add, the set the proximity check reads (the set of
\* the last render) is the set the accepted point is appended to (the latest
\* set): no move, append, delete or clear has taken effect in between
C28_CheckedSetIsAppendedSet ==
    [][ (/\ pendingClick # <<>>
         /\ pendingClick' = <<>>
         /\ Len(manualAPs') = Len(manualAPs) + 1)
        => renderedManualAPs = manualAPs ]_vars

\* C29: whenever a drag is in progress, draggingApIndex is an index of
\* manualAPs (the AP that was pressed), also when a delete, a clear or the
\* completion of a new image load happens during the drag
C29_DraggedIndexIsValid ==
    draggingApIndex # NoIndex => draggingApIndex < Len(manualAPs)

\* C30: a move handled by handleMoveManualAp(index, p) keeps the length of
\* manualAPs and every element at another index in its place; when index is
\* not an index of manualAPs the set is unchanged
C30_ReplaceAtIndexKeepsTheRest ==
    [][ (/\ lastOp' = "move"
         /\ pressed /\ pressed'
         /\ pendingClick' = pendingClick)
        => /\ Len(manualAPs') = Len(manualAPs)
           /\ \A i \in 1..Len(manualAPs) :
                 i - 1 # draggingApIndex => manualAPs'[i] = manualAPs[i]
           /\ draggingApIndex >= Len(manualAPs) => manualAPs' = manualAPs ]_vars

\* a move has been handled for index 0 after the set was emptied during the
\* drag
C30_Witness ==
    /\ lastOp = "move"
    /\ pressed
    /\ draggingApIndex = 0
    /\ manualAPs = <<>>

====
